---- MODULE Spec2Model ----
(***************************************************************************)
(* Model of prefect/_internal/concurrency/timeouts.py: the CancelContext   *)
(* state machine (flags, chain list, non-reentrant lock) executed by       *)
(* several threads one lock-delimited step at a time.                      *)
(***************************************************************************)
EXTENDS Integers, Sequences, FiniteSets, TLC

\* ------------------------------------------------------------------ bounds
NTokens == 3
NThreads == 2
MaxChained == 2
MaxCancelFn == 2
MaxCalls == 4

Tokens == 1..NTokens
Threads == 1..NThreads
\* threading.Lock() starts unlocked; a held lock is named by its owner's thread id
Free == 0
\* Python's None for an Optional[float]
None == -1
\* math.inf, the deadline of an unbounded anyio.CancelScope
Inf == 1000

\* the thread that enters the bounded scope (the supervised thread), the watcher's
\* enforcer thread, and another thread that holds the token
Body == 1
Watcher == 2
User == 3
ScopeThreads == {Body, Watcher, User}
\* the token the scope yields
Ctx == 1

VARIABLES
    cancelled,      \* CancelContext._cancelled, per token
    completed,      \* CancelContext._completed, per token
    chained,        \* CancelContext._chained, per token (a list of tokens)
    lock,           \* CancelContext._lock, per token: Free or the owning thread
    stack,          \* per thread: the call stack of CancelContext method frames
    cancelFnCalls,  \* per token: how many times self._cancel() was invoked
    ncalls,         \* how many top-level calls the callers have made so far
    cfg,            \* the entry point, platform, thread kind and argument of the scope
    now,            \* time.monotonic()
    scope,          \* the locals of the context manager that bounds the scope
    proc,           \* process-wide state: SIGALRM handler, ITIMER_REAL, pending faults
    obs             \* what the caller of the scope has observed

tokVars == <<cancelled, completed, chained, lock, cancelFnCalls>>
scopeVars == <<cfg, now, scope, proc, obs>>
vars == <<cancelled, completed, chained, lock, stack, cancelFnCalls, ncalls,
          cfg, now, scope, proc, obs>>

\* ------------------------------------------------------------------ frames
Ops == {"cancel", "mark_cancelled", "mark_completed", "chain"}

\* pc of a frame: "enter" before the method's first statement, "loop" inside the
\* cascade of mark_cancelled, "exit" after the nested call of chain, "test" after
\* the nested call of cancel, "done" once a top-level call has returned rv;
\* pre is the state of the token when a top-level call was invoked, at the clock
\* when a cancel() invoked the callback
Frame(op, t, arg) ==
    [op |-> op, tok |-> t, arg |-> arg, pc |-> "enter", idx |-> 0, rv |-> "None",
     pre |-> "nested", at |-> None]

Top(th) == stack[th][Len(stack[th])]
Idle(th) == stack[th] = <<>>
Returned(th) == Len(stack[th]) = 1 /\ stack[th][1].pc = "done"
Running(th) == stack[th] # <<>> /\ ~Returned(th)
At(th, op, pc) == Running(th) /\ Top(th).op = op /\ Top(th).pc = pc

Bool(b) == IF b THEN "True" ELSE "False"
Falsy(v) == v \in {"False", "None"}

\* replace the top frame of th
SetTop(th, f) == [stack EXCEPT ![th] = [@ EXCEPT ![Len(@)] = f]]
\* push a callee frame on top of the (updated) caller frame
PushOn(th, caller, callee) ==
    [stack EXCEPT ![th] = Append([@ EXCEPT ![Len(@)] = caller], callee)]

\* the top frame returns v: the caller's frame receives it; a top-level call
\* stays visible as returned until the thread goes on
Return(th, v) ==
    LET n == Len(stack[th]) IN
    [stack EXCEPT ![th] =
        IF n = 1
        THEN <<[@[1] EXCEPT !.pc = "done", !.rv = v, !.idx = 0]>>
        ELSE [i \in 1..(n - 1) |-> IF i = n - 1 THEN [@[i] EXCEPT !.rv = v] ELSE @[i]]]

Release_Keeps(t) == lock

Release(t) == [lock EXCEPT ![t] = Free]
Hold(t, th) == [lock EXCEPT ![t] = th]

\* ------------------------------------------------------------------ scope state
\* the token-level specification bounds no scope: tokens are built directly with
\* CancelContext(timeout, cancel) and a callback that only counts its calls
NoCfg == [entry |-> "none", win |-> FALSE, main |-> FALSE, arg |-> None]

NoScope ==
    [kind |-> "plain", timeout |-> None, deadline |-> None, scopeDeadline |-> None,
     ctxTimeout |-> None, ctxDeadline |-> None, previous |-> None,
     event |-> FALSE, cancel_called |-> FALSE, exc |-> "none"]

NoProc ==
    [handler |-> "default", timerAt |-> None, sigPending |-> FALSE,
     asyncExc |-> "none", wakeAt |-> None]

NoObs == [outcome |-> "running", lateFault |-> "none", warned |-> FALSE]

\* ------------------------------------------------------------------ Init
Init ==
    /\ cancelled = [t \in Tokens |-> FALSE]
    /\ completed = [t \in Tokens |-> FALSE]
    /\ chained = [t \in Tokens |-> <<>>]
    /\ lock = [t \in Tokens |-> Free]
    /\ stack = [th \in Threads |-> <<>>]
    /\ cancelFnCalls = [t \in Tokens |-> 0]
    /\ ncalls = 0
    /\ cfg = NoCfg
    /\ now = 0
    /\ scope = NoScope
    /\ proc = NoProc
    /\ obs = NoObs

\* ------------------------------------------------------------------ calls
RECURSIVE SumOver(_, _)
SumOver(f, S) ==
    IF S = {} THEN 0
    ELSE LET t == CHOOSE x \in S : TRUE IN f[t] + SumOver(f, S \ {t})

InFlight(op) ==
    Cardinality({th \in Threads : Running(th) /\ stack[th][1].op = op})

StateOf(t) ==
    IF cancelled[t] THEN "cancelled" ELSE IF completed[t] THEN "completed" ELSE "fresh"

\* A thread that is running nothing calls a method of some token.
Call(th) ==
    /\ Idle(th)
    /\ \E op \in Ops, t \in Tokens, a \in Tokens :
        /\ op = "chain" =>
              SumOver([x \in Tokens |-> Len(chained[x])], Tokens) + InFlight("chain")
                  < MaxChained
        /\ op = "cancel" =>
              SumOver(cancelFnCalls, Tokens) + InFlight("cancel") < MaxCancelFn
        /\ op # "chain" => a = t
        /\ stack' = [stack EXCEPT ![th] =
                        <<[Frame(op, t, a)
                            EXCEPT !.pre = StateOf(t)]>>]
    /\ ncalls < MaxCalls
    /\ ncalls' = ncalls + 1
    /\ UNCHANGED <<cancelled, completed, chained, lock, cancelFnCalls, scopeVars>>

\* The caller has its result and goes on.
Finish(th) ==
    /\ Returned(th)
    /\ stack' = [stack EXCEPT ![th] = <<>>]
    /\ UNCHANGED <<cancelled, completed, chained, lock, cancelFnCalls, ncalls, scopeVars>>

\* ------------------------------------------------------------------ mark_cancelled
MarkCancelledRefuses_Never(t) == FALSE

\* `if self._completed: return False`
MarkCancelledRefuses(t) == completed[t]

SetCancelled_Toggle(t) == [cancelled EXCEPT ![t] = ~@]

\* `self._cancelled = True`
SetCancelled(t) == [cancelled EXCEPT ![t] = TRUE]

CascadeList_SkipLast(t) ==
    IF chained[t] = <<>> THEN <<>> ELSE SubSeq(chained[t], 1, Len(chained[t]) - 1)

\* `for ctx in self._chained:` the list the cascade walks
CascadeList(t) == chained[t]

\* `with self._lock:` (threading.Lock is not reentrant: its owner blocks too),
\* the completed test and the assignment
MarkCancelledEnter(th) ==
    /\ At(th, "mark_cancelled", "enter")
    /\ LET t == Top(th).tok IN
        /\ lock[t] = Free
        /\ IF MarkCancelledRefuses(t)
           THEN /\ stack' = Return(th, "False")
                /\ UNCHANGED <<cancelled, completed, chained, lock, cancelFnCalls, ncalls, scopeVars>>
           ELSE /\ cancelled' = SetCancelled(t)
                /\ lock' = Hold(t, th)
                /\ stack' = SetTop(th, [Top(th) EXCEPT !.pc = "loop", !.idx = 1])
                /\ UNCHANGED <<completed, chained, cancelFnCalls, ncalls, scopeVars>>

\* `for ctx in self._chained: ctx.mark_cancelled()` then `return True`
MarkCancelledLoop(th) ==
    /\ At(th, "mark_cancelled", "loop")
    /\ LET t == Top(th).tok
           i == Top(th).idx
       IN  IF i <= Len(CascadeList(t))
           THEN /\ stack' = PushOn(th, [Top(th) EXCEPT !.idx = i + 1],
                                   Frame("mark_cancelled", CascadeList(t)[i],
                                         CascadeList(t)[i]))
                /\ UNCHANGED <<cancelled, completed, chained, lock, cancelFnCalls, ncalls, scopeVars>>
           ELSE /\ lock' = Release(t)
                /\ stack' = Return(th, "True")
                /\ UNCHANGED <<cancelled, completed, chained, cancelFnCalls, ncalls, scopeVars>>

\* ------------------------------------------------------------------ mark_completed
MarkCompletedRefuses_Never(t) == FALSE

MarkCompletedRefuses_WrongFlag(t) == completed[t]

\* `if self._cancelled: return False`
MarkCompletedRefuses(t) == cancelled[t]

\* `self._completed = True`
SetCompleted(t) == [completed EXCEPT ![t] = TRUE]

\* the whole `with self._lock:` block of mark_completed
MarkCompleted(th) ==
    /\ At(th, "mark_completed", "enter")
    /\ LET t == Top(th).tok IN
        /\ lock[t] = Free
        /\ IF MarkCompletedRefuses(t)
           THEN /\ stack' = Return(th, "False")
                /\ UNCHANGED <<cancelled, completed, chained, lock, cancelFnCalls, ncalls, scopeVars>>
           ELSE /\ completed' = SetCompleted(t)
                /\ stack' = Return(th, "True")
                /\ UNCHANGED <<cancelled, chained, lock, cancelFnCalls, ncalls, scopeVars>>

\* ------------------------------------------------------------------ chain
ChainMarksNow_Never(t) == FALSE

ChainMarksNow_WhenCompleted(t) == completed[t]

\* `if self._cancelled:` of chain()
ChainMarksNow(t) == cancelled[t]

\* `self._chained.append(ctx)`
ChainAppend(t, c) == [chained EXCEPT ![t] = Append(@, c)]

\* `with self._lock:` and the branch of chain(); the nested ctx.mark_cancelled()
\* runs with this token's lock held
ChainEnter(th) ==
    /\ At(th, "chain", "enter")
    /\ LET t == Top(th).tok
           c == Top(th).arg
       IN  /\ lock[t] = Free
           /\ IF ChainMarksNow(t)
              THEN /\ lock' = Hold(t, th)
                   /\ stack' = PushOn(th, [Top(th) EXCEPT !.pc = "exit"],
                                      Frame("mark_cancelled", c, c))
                   /\ UNCHANGED <<cancelled, completed, chained, cancelFnCalls, ncalls, scopeVars>>
              ELSE /\ chained' = ChainAppend(t, c)
                   /\ stack' = Return(th, "None")
                   /\ UNCHANGED <<cancelled, completed, lock, cancelFnCalls, ncalls, scopeVars>>

\* ctx.mark_cancelled() has returned inside chain(): leave the `with` block
ChainExit(th) ==
    /\ At(th, "chain", "exit")
    /\ lock' = Release(Top(th).tok)
    /\ stack' = Return(th, "None")
    /\ UNCHANGED <<cancelled, completed, chained, cancelFnCalls, ncalls, scopeVars>>

\* ------------------------------------------------------------------ cancel
\* `if self.mark_cancelled():` the call
CancelCall(th) ==
    /\ At(th, "cancel", "enter")
    /\ stack' = PushOn(th, [Top(th) EXCEPT !.pc = "test"],
                       Frame("mark_cancelled", Top(th).tok, Top(th).tok))
    /\ UNCHANGED <<cancelled, completed, chained, lock, cancelFnCalls, ncalls, scopeVars>>

CancelInvokes_Always(rv) == TRUE

\* `if self.mark_cancelled():` the test of the returned value
CancelInvokes(rv) == rv = "True"

CancelFn_AlsoChildren(t) ==
    [u \in Tokens |->
        IF u = t \/ \E i \in 1..Len(chained[t]) : chained[t][i] = u
        THEN cancelFnCalls[u] + 1 ELSE cancelFnCalls[u]]

\* `self._cancel()`: one more invocation of the callback given to the constructor
CancelFn(t) == [cancelFnCalls EXCEPT ![t] = @ + 1]

BodyAlive_Never == FALSE

BodyAlive_Always == TRUE

\* the supervised thread still exists (PyThreadState_SetAsyncExc finds it)
BodyAlive == stack[Body] # <<>> /\ stack[Body][1].pc # "dead"

\* what the callback given to the constructor does, by the scope that built the
\* token: scope.cancel, signal.raise_signal(SIGALRM), _send_exception_to_thread(
\* supervised_thread, CancelledError), `lambda: None`; a token built directly has
\* a callback that does nothing else than being called
CancelFnEffect ==
    CASE scope.kind = "async" ->
            /\ scope' = [scope EXCEPT !.cancel_called = TRUE]
            /\ UNCHANGED <<cfg, now, proc, obs>>
      [] scope.kind = "alarm" ->
            /\ proc' = [proc EXCEPT !.sigPending = TRUE]
            /\ UNCHANGED <<cfg, now, scope, obs>>
      [] scope.kind = "watcher" /\ BodyAlive ->
            /\ proc' = [proc EXCEPT !.asyncExc = "CancelledError"]
            /\ UNCHANGED <<cfg, now, scope, obs>>
      [] OTHER -> UNCHANGED scopeVars

\* the value `self._cancel()` returns, or the exception it raises
CancelFnResult ==
    CASE scope.kind = "plain" -> "cancelFn()"
      [] scope.kind = "watcher" /\ ~BodyAlive -> "ValueError"
      [] OTHER -> "None"

\* `return self._cancel()`: the callback's own result when it was invoked, the
\* implicit None otherwise
CancelTest(th) ==
    /\ At(th, "cancel", "test")
    /\ IF CancelInvokes(Top(th).rv)
       THEN /\ cancelFnCalls' = CancelFn(Top(th).tok)
            /\ CancelFnEffect
            /\ stack' = [Return(th, CancelFnResult) EXCEPT ![th][1].at = now]
       ELSE /\ UNCHANGED <<cancelFnCalls, scopeVars>>
            /\ stack' = Return(th, "None")
    /\ UNCHANGED <<cancelled, completed, chained, lock, ncalls>>

\* ------------------------------------------------------------------ Spec
Step(th) ==
    \/ Call(th)
    \/ Finish(th)
    \/ MarkCancelledEnter(th)
    \/ MarkCancelledLoop(th)
    \/ MarkCompleted(th)
    \/ ChainEnter(th)
    \/ ChainExit(th)
    \/ CancelCall(th)
    \/ CancelTest(th)

Next == \E th \in Threads : Step(th)

Spec == Init /\ [][Next]_vars

\* ------------------------------------------------------------------ bounded scopes
MaxTime == 3
MaxStart == 1
MaxArg == 2
MaxUserCalls == 1

Entries ==
    {"cancel_async_at", "cancel_async_after", "cancel_sync_at", "cancel_sync_after",
     "_alarm_based_timeout"}
OptArgs == {None} \cup (0..MaxArg)

ScopeFrame(pc) == [Frame("scope", Ctx, Ctx) EXCEPT !.pc = pc]

\* the scope's thread is in the context manager itself (no method call pending)
ScopeAt(pc) ==
    /\ Len(stack[Body]) = 1
    /\ stack[Body][1].op = "scope"
    /\ stack[Body][1].pc = pc

ScopeGoto(pc) == [stack EXCEPT ![Body] = <<[@[1] EXCEPT !.pc = pc]>>]

\* the context manager calls a method of the token and goes on at pc
ScopeCalls(op, pc) ==
    [stack EXCEPT ![Body] = <<[@[1] EXCEPT !.pc = pc], Frame(op, Ctx, Ctx)>>]

Max0(x) == IF x > 0 THEN x ELSE 0

GetDeadline_Truthy(timeout) ==
    IF timeout = None \/ timeout = 0 THEN None ELSE now + timeout

\* get_deadline(timeout)
GetDeadline(timeout) == IF timeout = None THEN None ELSE now + timeout

\* `max(0, deadline - time.monotonic()) if deadline else None` of cancel_async_at:
\* the test is the truth value of deadline, and 0.0 is false
RemainingAsync(deadline) ==
    IF deadline # None /\ deadline # 0 THEN Max0(deadline - now) ELSE None

\* `max(0, deadline - time.monotonic()) if deadline is not None else None`
RemainingSync(deadline) ==
    IF deadline # None THEN Max0(deadline - now) ELSE None

\* `(time.monotonic() + timeout) if timeout is not None else None`
DeadlineAfter(timeout) == IF timeout # None THEN now + timeout ELSE None

ScopeDeadline_Zero(deadline) == IF deadline # None THEN deadline ELSE 0

\* `deadline if deadline is not None else math.inf`
ScopeDeadline(deadline) == IF deadline # None THEN deadline ELSE Inf

InitScope ==
    /\ cancelled = [t \in Tokens |-> FALSE]
    /\ completed = [t \in Tokens |-> FALSE]
    /\ chained = [t \in Tokens |-> <<>>]
    /\ lock = [t \in Tokens |-> Free]
    /\ cancelFnCalls = [t \in Tokens |-> 0]
    /\ ncalls = 0
    /\ stack = [th \in ScopeThreads |->
                    IF th = Body THEN <<ScopeFrame("start")>> ELSE <<>>]
    /\ cfg \in [entry : Entries, win : BOOLEAN, main : BOOLEAN, arg : OptArgs]
    \* the cooperative entry points read neither the platform nor the thread
    /\ cfg.entry \in {"cancel_async_at", "cancel_async_after"} => ~cfg.win /\ cfg.main
    \* a direct call of the alarm enforcer does not read the platform
    /\ cfg.entry = "_alarm_based_timeout" => ~cfg.win
    /\ now \in 0..MaxStart
    /\ scope = [NoScope EXCEPT !.kind = "none"]
    /\ proc = NoProc
    /\ obs = NoObs

\* time passes
Tick ==
    /\ now < MaxTime
    /\ now' = now + 1
    /\ UNCHANGED <<cancelled, completed, chained, lock, stack, cancelFnCalls, ncalls,
                   cfg, scope, proc, obs>>

\* cancel_async_after, then cancel_async_at up to `yield ctx`
EnterAsync ==
    /\ ScopeAt("start")
    /\ cfg.entry \in {"cancel_async_at", "cancel_async_after"}
    /\ LET deadline == IF cfg.entry = "cancel_async_at"
                       THEN cfg.arg ELSE DeadlineAfter(cfg.arg)
           timeout == RemainingAsync(deadline)
       IN  scope' = [scope EXCEPT !.kind = "async",
                                  !.deadline = deadline,
                                  !.timeout = timeout,
                                  !.scopeDeadline = ScopeDeadline(deadline),
                                  !.ctxTimeout = timeout,
                                  !.ctxDeadline = GetDeadline(timeout)]
    /\ stack' = ScopeGoto("body")
    /\ UNCHANGED <<tokVars, ncalls, cfg, now, proc, obs>>

\* the timeout cancel_sync_at or cancel_sync_after hands to cancel_sync_after
SyncTimeout ==
    IF cfg.entry = "cancel_sync_at" THEN RemainingSync(cfg.arg) ELSE cfg.arg

IsSync == cfg.entry \in {"cancel_sync_at", "cancel_sync_after"}

OnWindows_Never == FALSE

\* `if sys.platform.startswith("win"):`
OnWindows == cfg.win

UsesAlarm_WithTimeout == cfg.main /\ cfg.arg # None

\* `if threading.current_thread() is threading.main_thread():`
UsesAlarm == cfg.main

\* the Windows branch of cancel_sync_after up to its `yield`
EnterWindows ==
    /\ ScopeAt("start")
    /\ IsSync
    /\ OnWindows
    /\ scope' = [scope EXCEPT !.kind = "windows", !.timeout = SyncTimeout]
    /\ obs' = [obs EXCEPT !.warned = (SyncTimeout # None)]
    /\ stack' = ScopeGoto("body")
    /\ UNCHANGED <<tokVars, ncalls, cfg, now, proc>>

\* _alarm_based_timeout is called: by cancel_sync_after, or directly
ReachesAlarm ==
    \/ cfg.entry = "_alarm_based_timeout"
    \/ IsSync /\ ~OnWindows /\ UsesAlarm

AlarmRefuses_Never == FALSE

\* `if not current_thread is threading.main_thread():`
AlarmRefuses == ~cfg.main

\* `raise ValueError("Alarm based timeouts can only be used in the main thread.")`
AlarmPrecondition ==
    /\ ScopeAt("start")
    /\ ReachesAlarm
    /\ AlarmRefuses
    /\ stack' = ScopeGoto("exited")
    /\ obs' = [obs EXCEPT !.outcome = "ValueError"]
    /\ UNCHANGED <<tokVars, ncalls, cfg, now, scope, proc>>

\* _alarm_based_timeout up to signal.signal(SIGALRM, raise_alarm_as_timeout)
EnterAlarm ==
    /\ ScopeAt("start")
    /\ ReachesAlarm
    /\ ~AlarmRefuses
    /\ scope' = [scope EXCEPT !.kind = "alarm",
                              !.timeout = SyncTimeout,
                              !.deadline = GetDeadline(SyncTimeout),
                              !.ctxTimeout = SyncTimeout,
                              !.ctxDeadline = GetDeadline(SyncTimeout)]
    /\ proc' = [proc EXCEPT !.handler = "scope"]
    /\ stack' = ScopeGoto("arm")
    /\ UNCHANGED <<tokVars, ncalls, cfg, now, obs>>

\* what is left on ITIMER_REAL, as setitimer returns it (0 when disarmed)
TimerLeft == IF proc.timerAt = None THEN 0 ELSE Max0(proc.timerAt - now)

\* signal.setitimer(signal.ITIMER_REAL, seconds): 0 disarms the timer
SetITimer(seconds) ==
    [proc EXCEPT !.timerAt = IF seconds > 0 THEN now + seconds ELSE None]

\* `if timeout is not None: previous = signal.setitimer(ITIMER_REAL, timeout)`
AlarmArm ==
    /\ ScopeAt("arm")
    /\ IF scope.timeout # None
       THEN /\ scope' = [scope EXCEPT !.previous = TimerLeft]
            /\ proc' = SetITimer(scope.timeout)
       ELSE UNCHANGED <<scope, proc>>
    /\ stack' = ScopeGoto("try")
    /\ UNCHANGED <<tokVars, ncalls, cfg, now, obs>>

EnforcerFrame == [Frame("enforcer", Ctx, Ctx) EXCEPT !.pc = "sleep"]

\* _watcher_thread_based_timeout up to enforcer.start()
EnterWatcher ==
    /\ ScopeAt("start")
    /\ IsSync
    /\ ~OnWindows
    /\ ~UsesAlarm
    /\ scope' = [scope EXCEPT !.kind = "watcher",
                              !.timeout = SyncTimeout,
                              !.ctxTimeout = SyncTimeout,
                              !.ctxDeadline = GetDeadline(SyncTimeout)]
    /\ IF SyncTimeout # None
       THEN /\ stack' = [stack EXCEPT ![Body] = <<ScopeFrame("try")>>,
                                      ![Watcher] = <<EnforcerFrame>>]
            /\ proc' = [proc EXCEPT !.wakeAt = now + SyncTimeout]
       ELSE /\ stack' = ScopeGoto("try")
            /\ UNCHANGED proc
    /\ UNCHANGED <<tokVars, ncalls, cfg, now, obs>>

\* `try: yield ctx` of the alarm and watcher enforcers
EnterTry ==
    /\ ScopeAt("try")
    /\ stack' = ScopeGoto("body")
    /\ UNCHANGED <<tokVars, ncalls, scopeVars>>

\* the body of the `with` statement ends normally
BodyReturns ==
    /\ ScopeAt("body")
    /\ stack' = ScopeGoto("finally")
    /\ scope' = [scope EXCEPT !.exc = "none"]
    /\ UNCHANGED <<tokVars, ncalls, cfg, now, proc, obs>>

\* the body raises an exception of its own
BodyRaises ==
    /\ ScopeAt("body")
    /\ stack' = ScopeGoto("finally")
    /\ scope' = [scope EXCEPT !.exc = "BodyError"]
    /\ UNCHANGED <<tokVars, ncalls, cfg, now, proc, obs>>

\* ------------------------------------------------------------------ cooperative enforcer
\* the scheduler's deadline of the anyio.CancelScope passes while the body is
\* suspended: the scheduler cancels the scope
AsyncDeadline ==
    /\ ScopeAt("body")
    /\ scope.kind = "async"
    /\ ~scope.cancel_called
    /\ now >= scope.scopeDeadline
    /\ scope' = [scope EXCEPT !.cancel_called = TRUE]
    /\ UNCHANGED <<tokVars, stack, ncalls, cfg, now, proc, obs>>

\* the cancelled scope interrupts the body at its next suspension point
AsyncCancelled ==
    /\ ScopeAt("body")
    /\ scope.kind = "async"
    /\ scope.cancel_called
    /\ stack' = ScopeGoto("finally")
    /\ scope' = [scope EXCEPT !.exc = "CancelledError"]
    /\ UNCHANGED <<tokVars, ncalls, cfg, now, proc, obs>>

\* the cancellation of an enclosing scheduler scope interrupts the body at its next
\* suspension point; cancel_called of this scope's own CancelScope is left as it is
OuterCancels ==
    /\ ScopeAt("body")
    /\ scope.kind = "async"
    /\ stack' = ScopeGoto("finally")
    /\ scope' = [scope EXCEPT !.exc = "asyncio.CancelledError"]
    /\ UNCHANGED <<tokVars, ncalls, cfg, now, proc, obs>>

AsyncMarksCancelled_Never == FALSE

\* `if scope.cancel_called:` in the finally block of cancel_async_at
AsyncMarksCancelled == scope.cancel_called

\* `finally:` of cancel_async_at: ctx.mark_cancelled() or ctx.mark_completed()
FinAsync ==
    /\ ScopeAt("finally")
    /\ scope.kind = "async"
    /\ stack' = IF AsyncMarksCancelled
                THEN ScopeCalls("mark_cancelled", "raise")
                ELSE ScopeCalls("mark_completed", "leave")
    /\ UNCHANGED <<tokVars, ncalls, scopeVars>>

AsyncFault_Strict ==
    IF scope.deadline # None /\ now > scope.deadline
    THEN "TimeoutError" ELSE "CancelledError"

\* `TimeoutError() if deadline is not None and time.monotonic() >= deadline
\*  else CancelledError()`
AsyncFault ==
    IF scope.deadline # None /\ now >= scope.deadline
    THEN "TimeoutError" ELSE "CancelledError"

\* `raise (...)` in the finally block of cancel_async_at
AsyncRaise ==
    /\ ScopeAt("raise")
    /\ stack' = ScopeGoto("exited")
    /\ obs' = [obs EXCEPT !.outcome = AsyncFault]
    /\ UNCHANGED <<tokVars, ncalls, cfg, now, scope, proc>>

\* ------------------------------------------------------------------ faults
\* a signal handler or an asynchronous exception runs between two bytecodes of
\* the thread: in the context manager or the body, or before a method's first
\* statement; a handler does not interrupt itself
Interruptible(th) ==
    /\ stack[th] # <<>>
    /\ \A i \in 1..Len(stack[th]) : stack[th][i].op # "handler"
    /\ IF Top(th).op = "scope"
       THEN Top(th).pc \notin {"start", "dead"}
       ELSE Top(th).pc = "enter"

\* an exception is raised in the scope's thread: the frames above the context
\* manager are left (every `with self._lock` releases its lock); in the body it
\* enters the `finally` block, anywhere else it leaves the context manager
Raise(fault) ==
    LET pc == stack[Body][1].pc IN
    /\ stack' = ScopeGoto(IF pc = "body" THEN "finally" ELSE "exited")
    /\ lock' = [t \in Tokens |-> IF lock[t] = Body THEN Free ELSE lock[t]]
    /\ scope' = IF pc = "body" THEN [scope EXCEPT !.exc = fault] ELSE scope
    /\ obs' = CASE pc = "body" -> obs
                [] pc = "exited" -> [obs EXCEPT !.lateFault = fault]
                [] OTHER -> [obs EXCEPT !.outcome = fault]

\* ------------------------------------------------------------------ alarm enforcer
\* ITIMER_REAL expires: SIGALRM is sent to the process
TimerFires ==
    /\ proc.timerAt # None
    /\ now >= proc.timerAt
    /\ proc' = [proc EXCEPT !.timerAt = None, !.sigPending = TRUE]
    /\ UNCHANGED <<tokVars, stack, ncalls, cfg, now, scope, obs>>

\* raise_alarm_as_timeout starts in the main thread: ctx.mark_cancelled()
HandlerEnter ==
    /\ cfg.main
    /\ proc.sigPending
    /\ proc.handler = "scope"
    /\ Interruptible(Body)
    /\ proc' = [proc EXCEPT !.sigPending = FALSE]
    /\ stack' = [stack EXCEPT ![Body] =
                    @ \o <<[Frame("handler", Ctx, Ctx) EXCEPT !.pc = "raise"],
                           Frame("mark_cancelled", Ctx, Ctx)>>]
    /\ UNCHANGED <<tokVars, ncalls, cfg, now, scope, obs>>

AlarmFault_Always == "TimeoutError"

\* `TimeoutError() if timeout is not None and time.monotonic() >= deadline
\*  else CancelledError()`, on the timeout and deadline the handler closes over
AlarmFaultOf(timeout, deadline) ==
    IF timeout # None /\ now >= deadline
    THEN "TimeoutError" ELSE "CancelledError"

\* the fault raised by the handler of the scope
AlarmFault == AlarmFaultOf(scope.timeout, scope.deadline)

\* `raise (...)` of raise_alarm_as_timeout
HandlerRaise ==
    /\ At(Body, "handler", "raise")
    /\ Raise(AlarmFault)
    /\ UNCHANGED <<cancelled, completed, chained, cancelFnCalls, ncalls, cfg, now, proc>>

\* `signal.setitimer(signal.ITIMER_REAL, *previous)`
RestoreTimer == SetITimer(scope.previous)

\* `finally: if timeout is not None: signal.setitimer(ITIMER_REAL, *previous)`
FinAlarm ==
    /\ ScopeAt("finally")
    /\ scope.kind = "alarm"
    /\ proc' = IF scope.timeout # None THEN RestoreTimer ELSE proc
    /\ stack' = ScopeGoto("mark")
    /\ UNCHANGED <<tokVars, ncalls, cfg, now, scope, obs>>

\* ------------------------------------------------------------------ watcher enforcer
\* timeout_enforcer: `time.sleep(timeout)` is over; `if not event.is_set():
\* ctx.mark_cancelled()`
EnforcerTest ==
    /\ At(Watcher, "enforcer", "sleep")
    /\ now >= proc.wakeAt
    /\ IF ~scope.event
       THEN stack' = PushOn(Watcher, [Top(Watcher) EXCEPT !.pc = "send"],
                            Frame("mark_cancelled", Ctx, Ctx))
       ELSE stack' = Return(Watcher, "None")
    /\ UNCHANGED <<tokVars, ncalls, scopeVars>>

\* `_send_exception_to_thread(supervised_thread, TimeoutError)`: the exception is
\* set in the thread's state, or ValueError("Thread not found.") is raised
EnforcerSend ==
    /\ At(Watcher, "enforcer", "send")
    /\ IF BodyAlive
       THEN /\ proc' = [proc EXCEPT !.asyncExc = "TimeoutError"]
            /\ stack' = Return(Watcher, "None")
       ELSE /\ UNCHANGED proc
            /\ stack' = Return(Watcher, "ValueError")
    /\ UNCHANGED <<tokVars, ncalls, cfg, now, scope, obs>>

\* the exception set by PyThreadState_SetAsyncExc is raised in the supervised
\* thread
AsyncExcRaised ==
    /\ proc.asyncExc # "none"
    /\ Interruptible(Body)
    /\ proc' = [proc EXCEPT !.asyncExc = "none"]
    /\ Raise(proc.asyncExc)
    /\ UNCHANGED <<cancelled, completed, chained, cancelFnCalls, ncalls, cfg, now>>

\* `finally: event.set()` of _watcher_thread_based_timeout
FinWatcher ==
    /\ ScopeAt("finally")
    /\ scope.kind = "watcher"
    /\ scope' = [scope EXCEPT !.event = TRUE]
    /\ stack' = ScopeGoto("mark")
    /\ UNCHANGED <<tokVars, ncalls, cfg, now, proc, obs>>

\* `ctx.mark_completed()` at the end of the alarm and watcher `finally` blocks
FinMark ==
    /\ ScopeAt("mark")
    /\ stack' = ScopeCalls("mark_completed", "leave")
    /\ UNCHANGED <<tokVars, ncalls, scopeVars>>

\* the context manager is left: the body's own exception, if any, propagates; the
\* Windows branch has nothing after its `yield`
Leave ==
    /\ \/ ScopeAt("leave")
       \/ ScopeAt("finally") /\ scope.kind = "windows"
    /\ stack' = ScopeGoto("exited")
    /\ obs' = [obs EXCEPT !.outcome = IF scope.exc = "none" THEN "returned" ELSE scope.exc]
    /\ UNCHANGED <<tokVars, ncalls, cfg, now, scope, proc>>

\* the thread that ran the scope ends
ThreadEnds ==
    /\ ScopeAt("exited")
    /\ stack' = ScopeGoto("dead")
    /\ UNCHANGED <<tokVars, ncalls, scopeVars>>

\* ------------------------------------------------------------------ the token's other holder
\* the token has been yielded to the `with` statement
Yielded == scope.kind # "none" /\ stack[Body][1].pc \notin {"start", "arm", "try"}

\* another thread cancels the token by hand, or a parent's cascade marks it
UserCall ==
    /\ Idle(User)
    /\ Yielded
    /\ ncalls < MaxUserCalls
    /\ ncalls' = ncalls + 1
    /\ \E op \in {"cancel", "mark_cancelled"} :
        stack' = [stack EXCEPT ![User] =
                     <<[Frame(op, Ctx, Ctx) EXCEPT !.pre = StateOf(Ctx)]>>]
    /\ UNCHANGED <<tokVars, scopeVars>>

ScopeStep ==
    \/ Tick
    \/ EnterAsync
    \/ EnterWindows
    \/ AlarmPrecondition
    \/ EnterAlarm
    \/ AlarmArm
    \/ EnterWatcher
    \/ EnterTry
    \/ BodyReturns
    \/ BodyRaises
    \/ AsyncDeadline
    \/ AsyncCancelled
    \/ OuterCancels
    \/ FinAsync
    \/ AsyncRaise
    \/ TimerFires
    \/ HandlerEnter
    \/ HandlerRaise
    \/ FinAlarm
    \/ EnforcerTest
    \/ EnforcerSend
    \/ AsyncExcRaised
    \/ FinWatcher
    \/ FinMark
    \/ Leave
    \/ ThreadEnds
    \/ UserCall
    \/ Finish(User)

TokenStep(th) ==
    \/ MarkCancelledEnter(th)
    \/ MarkCancelledLoop(th)
    \/ MarkCompleted(th)
    \/ CancelCall(th)
    \/ CancelTest(th)

NextScope == ScopeStep \/ \E th \in ScopeThreads : TokenStep(th)

SpecScope == InitScope /\ [][NextScope]_vars

\* the clock advances, the operating system schedules the enforcer thread and
\* every thread that is inside a method of the token, and the supervised thread
\* keeps reaching the points where a pending asynchronous exception is raised
SpecScopeFair ==
    /\ InitScope
    /\ [][NextScope]_vars
    /\ WF_vars(Tick)
    /\ WF_vars(EnforcerTest)
    /\ WF_vars(EnforcerSend)
    /\ WF_vars(AsyncExcRaised)
    /\ \A th \in ScopeThreads : WF_vars(TokenStep(th))

\* ------------------------------------------------------------------ nested alarm scopes
\* The main thread enters _alarm_based_timeout, and may enter it once more inside
\* the body. Each level has its own token (the level's number), its own locals
\* and its own handler closure; the SIGALRM handler and ITIMER_REAL are the
\* process's. A pending SIGALRM is handled before the thread's next step.
Outer == 1
Inner == 2
Levels == {Outer, Inner}

NoLocals == [timeout |-> None, deadline |-> None, previous |-> None, exc |-> "none"]

\* signal.SIG_DFL: no closure installed
NoHandler == <<>>

\* raise_alarm_as_timeout of a level: the ctx, timeout and deadline it closes over
Closure(l, timeout) == <<l, timeout, GetDeadline(timeout)>>

InitNested ==
    /\ cancelled = [t \in Tokens |-> FALSE]
    /\ completed = [t \in Tokens |-> FALSE]
    /\ chained = [t \in Tokens |-> <<>>]
    /\ lock = [t \in Tokens |-> Free]
    /\ cancelFnCalls = [t \in Tokens |-> 0]
    /\ ncalls = 0
    /\ stack = [th \in {Body} |-> <<>>]
    /\ cfg = [entry |-> "_alarm_based_timeout", win |-> FALSE, main |-> TRUE,
              arg |-> None]
    /\ now \in 0..MaxStart
    /\ scope = [l \in Levels |-> NoLocals]
    /\ proc = [NoProc EXCEPT !.handler = NoHandler]
    /\ obs = NoObs

\* the innermost open context manager is at pc
NestedAt(pc) ==
    /\ stack[Body] # <<>>
    /\ Top(Body).op = "scope"
    /\ Top(Body).pc = pc

NestedGoto(pc) == SetTop(Body, [Top(Body) EXCEPT !.pc = pc])

\* ITIMER_REAL has expired and its SIGALRM is not sent yet: the kernel sends it
\* before a later setitimer call reads the timer
TimerDue == proc.timerAt # None /\ now >= proc.timerAt

\* the main thread is between two bytecodes of a context manager or before the
\* first statement of a method, and not in the handler
NestedInterruptible ==
    /\ stack[Body] # <<>>
    /\ \A i \in 1..Len(stack[Body]) : stack[Body][i].op # "handler"
    /\ Top(Body).op # "scope" => Top(Body).pc = "enter"

\* the main thread goes on: no signal is waiting to be handled at this point
NestedPrompt == ~proc.sigPending \/ ~NestedInterruptible

\* _alarm_based_timeout(timeout) from get_deadline to `yield ctx`, at the top
\* level or inside the body of the outer scope
NestedEnter ==
    /\ NestedPrompt
    /\ obs.outcome = "running"
    /\ stack[Body] = <<>> \/ (Len(stack[Body]) = 1 /\ NestedAt("body"))
    /\ ~completed[Inner] /\ ~cancelled[Inner]
    /\ ~TimerDue
    /\ \E timeout \in OptArgs :
        LET l == Len(stack[Body]) + 1 IN
        /\ scope' = [scope EXCEPT ![l] =
                        [timeout |-> timeout,
                         deadline |-> GetDeadline(timeout),
                         previous |-> IF timeout # None THEN TimerLeft ELSE None,
                         exc |-> "none"]]
        /\ proc' = [(IF timeout # None THEN SetITimer(timeout) ELSE proc)
                        EXCEPT !.handler = Closure(l, timeout)]
        /\ stack' = [stack EXCEPT ![Body] =
                        Append(@, [Frame("scope", l, l) EXCEPT !.pc = "body"])]
    /\ UNCHANGED <<tokVars, ncalls, cfg, now, obs>>

\* the body of the innermost `with` statement ends normally
NestedBodyReturns ==
    /\ NestedPrompt
    /\ NestedAt("body")
    /\ stack' = NestedGoto("finally")
    /\ UNCHANGED <<tokVars, ncalls, scopeVars>>

\* `finally: if timeout is not None: signal.setitimer(ITIMER_REAL, *previous)`
NestedFinAlarm ==
    /\ NestedPrompt
    /\ NestedAt("finally")
    /\ ~TimerDue
    /\ LET l == Top(Body).tok IN
        proc' = IF scope[l].timeout # None THEN SetITimer(scope[l].previous) ELSE proc
    /\ stack' = NestedGoto("mark")
    /\ UNCHANGED <<tokVars, ncalls, cfg, now, scope, obs>>

\* `ctx.mark_completed()` at the end of the `finally` block
NestedFinMark ==
    /\ NestedPrompt
    /\ NestedAt("mark")
    /\ stack' = PushOn(Body, [Top(Body) EXCEPT !.pc = "leave"],
                       Frame("mark_completed", Top(Body).tok, Top(Body).tok))
    /\ UNCHANGED <<tokVars, ncalls, scopeVars>>

\* the context manager is left: an exception that went through it goes on into
\* the enclosing body and its `finally` block, or out of the outer scope
NestedLeave ==
    /\ NestedPrompt
    /\ NestedAt("leave")
    /\ LET l == Top(Body).tok
           exc == scope[l].exc
       IN  IF l = Inner
           THEN /\ stack' = [stack EXCEPT ![Body] =
                                <<[@[1] EXCEPT !.pc = IF exc = "none" THEN "body"
                                                     ELSE "finally"]>>]
                /\ scope' = IF exc = "none" THEN scope
                            ELSE [scope EXCEPT ![Outer].exc = exc]
                /\ obs' = obs
           ELSE /\ stack' = [stack EXCEPT ![Body] = <<>>]
                /\ scope' = scope
                /\ obs' = [obs EXCEPT !.outcome = IF exc = "none" THEN "returned"
                                                  ELSE exc]
    /\ UNCHANGED <<tokVars, ncalls, cfg, now, proc>>

\* SIGALRM is handled in the main thread by the closure installed last:
\* `ctx.mark_cancelled()` on the token it closes over
NestedHandlerEnter ==
    /\ proc.sigPending
    /\ proc.handler # NoHandler
    /\ NestedInterruptible
    /\ proc' = [proc EXCEPT !.sigPending = FALSE]
    /\ stack' = [stack EXCEPT ![Body] =
                    @ \o <<[Frame("handler", proc.handler[1], proc.handler[1])
                                EXCEPT !.pc = "raise"],
                           Frame("mark_cancelled", proc.handler[1], proc.handler[1])>>]
    /\ UNCHANGED <<tokVars, ncalls, cfg, now, scope, obs>>

\* the fault the installed closure raises
NestedFault == AlarmFaultOf(proc.handler[2], proc.handler[3])

\* the innermost open context manager below the handler's frame
InnermostScope ==
    CHOOSE k \in 1..Len(stack[Body]) :
        /\ stack[Body][k].op = "scope"
        /\ \A i \in (k + 1)..Len(stack[Body]) : stack[Body][i].op # "scope"

\* `raise (...)` of raise_alarm_as_timeout: in a body the exception enters the
\* `finally` block of that scope; in a `finally` block it leaves that context
\* manager and goes on into the enclosing body, or out of the outer scope
NestedHandlerRaise ==
    /\ At(Body, "handler", "raise")
    /\ LET k == InnermostScope
           l == stack[Body][k].tok
           inBody == stack[Body][k].pc = "body"
       IN  CASE inBody ->
                  /\ stack' = [stack EXCEPT ![Body] =
                                  Append(SubSeq(@, 1, k - 1),
                                         [@[k] EXCEPT !.pc = "finally"])]
                  /\ scope' = [scope EXCEPT ![l].exc = NestedFault]
                  /\ obs' = obs
             [] ~inBody /\ l = Inner ->
                  /\ stack' = [stack EXCEPT ![Body] =
                                  <<[@[1] EXCEPT !.pc = "finally"]>>]
                  /\ scope' = [scope EXCEPT ![Outer].exc = NestedFault]
                  /\ obs' = obs
             [] OTHER ->
                  /\ stack' = [stack EXCEPT ![Body] = <<>>]
                  /\ scope' = scope
                  /\ obs' = [obs EXCEPT !.outcome = NestedFault]
    /\ UNCHANGED <<tokVars, ncalls, cfg, now, proc>>

\* the main thread's steps inside the methods of a token
NestedMarkCancelledEnter == NestedPrompt /\ MarkCancelledEnter(Body)

NestedMarkCancelledLoop == NestedPrompt /\ MarkCancelledLoop(Body)

NestedMarkCompleted == NestedPrompt /\ MarkCompleted(Body)

NextNested ==
    \/ Tick
    \/ TimerFires
    \/ NestedEnter
    \/ NestedBodyReturns
    \/ NestedFinAlarm
    \/ NestedFinMark
    \/ NestedLeave
    \/ NestedHandlerEnter
    \/ NestedHandlerRaise
    \/ NestedMarkCancelledEnter
    \/ NestedMarkCancelledLoop
    \/ NestedMarkCompleted

SpecNested == InitNested /\ [][NextNested]_vars

\* ------------------------------------------------------------------ claims
\* the bottom frame of a thread whose top-level call op(t) has returned
Done(th, op, t) ==
    Returned(th) /\ stack[th][1].op = op /\ stack[th][1].tok = t

\* th takes a step of its own with its top frame in op at pc
Steps(th, op, pc) == At(th, op, pc) /\ stack'[th] # stack[th]

\* in this step the top frame of th returns v to its caller
Returns(th, v) ==
    LET n == Len(stack[th]) IN
    IF n = 1
    THEN Returned(th)' /\ stack'[th][1].rv = v
    ELSE Len(stack'[th]) = n - 1 /\ stack'[th][n - 1].rv = v

\* in this step the top frame of th stays on the stack
StaysIn(th) == Len(stack'[th]) >= Len(stack[th]) /\ ~Returned(th)'

\* C1: no token is ever both cancelled and completed, whatever the threads do
C1_NeverBoth == \A t \in Tokens : ~(cancelled[t] /\ completed[t])

\* a mark_completed() was refused on a cancelled token while another token completed
C1_Witness ==
    \E th \in Threads, t \in Tokens :
        /\ Done(th, "mark_completed", t)
        /\ stack[th][1].rv = "False"
        /\ cancelled[t]
        /\ \E u \in Tokens : completed[u]

\* C3: a flag that is true stays true in every later state
C3_TerminalPermanent ==
    [][\A t \in Tokens :
          /\ cancelled[t] => cancelled'[t]
          /\ completed[t] => completed'[t]]_vars

\* an operation has run on a token that was already terminal when it was called
C3_Witness ==
    \E th \in Threads, t \in Tokens :
        /\ Returned(th)
        /\ stack[th][1].tok = t
        /\ stack[th][1].op \in {"mark_cancelled", "cancel"}
        /\ stack[th][1].pre = "cancelled"
        /\ cancelled[t]

\* mark_cancelled() by a and mark_completed() by b, both invoked on the fresh token
\* t, have both returned
RaceDone(a, b, t) ==
    /\ a # b
    /\ Done(a, "mark_cancelled", t)
    /\ Done(b, "mark_completed", t)
    /\ stack[a][1].pre = "fresh"
    /\ stack[b][1].pre = "fresh"

\* C4 as claimed: after the race the token is cancelled and not completed
C4_CancelAlwaysWins ==
    \A a, b \in Threads, t \in Tokens :
        RaceDone(a, b, t) => cancelled[t] /\ ~completed[t]

\* C4 amended: exactly one of the two calls succeeds, and the token ends in the
\* terminal state of the call that succeeded (the one that took the lock first)
C4_FirstLockWins ==
    \A a, b \in Threads, t \in Tokens :
        RaceDone(a, b, t) =>
            /\ (stack[a][1].rv = "True") # (stack[b][1].rv = "True")
            /\ stack[a][1].rv = "True" => cancelled[t] /\ ~completed[t]
            /\ stack[b][1].rv = "True" => completed[t] /\ ~cancelled[t]

C4_Witness ==
    \E a, b \in Threads, t \in Tokens :
        RaceDone(a, b, t) /\ cancelled[t] /\ stack[b][1].rv = "False"

\* C5: mark_cancelled() returns False, changing no flag and no chain list, when the
\* token is completed as it takes the lock; otherwise it sets cancelled and every
\* later return of that call returns True
C5_MarkCancelledResult ==
    [][\A th \in Threads :
          /\ Steps(th, "mark_cancelled", "enter") =>
                IF completed[Top(th).tok]
                THEN /\ Returns(th, "False")
                     /\ UNCHANGED <<cancelled, completed, chained>>
                ELSE /\ cancelled'[Top(th).tok]
                     /\ StaysIn(th)
          /\ (Steps(th, "mark_cancelled", "loop") /\ ~StaysIn(th)) =>
                Returns(th, "True") /\ cancelled[Top(th).tok]]_vars

\* one mark_cancelled() was refused on a completed token and another succeeded
C5_Witness ==
    \E a, b \in Threads, t, u \in Tokens :
        /\ Done(a, "mark_cancelled", t) /\ stack[a][1].rv = "False" /\ completed[t]
        /\ Done(b, "mark_cancelled", u) /\ stack[b][1].rv = "True" /\ cancelled[u]

\* C6: mark_completed() returns False and changes nothing when the token is
\* cancelled as it takes the lock; otherwise it sets completed and returns True
C6_MarkCompletedResult ==
    [][\A th \in Threads :
          Steps(th, "mark_completed", "enter") =>
              IF cancelled[Top(th).tok]
              THEN /\ Returns(th, "False")
                   /\ UNCHANGED <<cancelled, completed, chained>>
              ELSE /\ completed'[Top(th).tok]
                   /\ Returns(th, "True")]_vars

\* one mark_completed() was refused on a cancelled token and another succeeded
C6_Witness ==
    \E a, b \in Threads, t, u \in Tokens :
        /\ Done(a, "mark_completed", t) /\ stack[a][1].rv = "False" /\ cancelled[t]
        /\ Done(b, "mark_completed", u) /\ stack[b][1].rv = "True" /\ completed[u]

Children(t) == {chained[t][i] : i \in 1..Len(chained[t])}

\* every token reachable from p along chain lists
RECURSIVE Descendants(_, _)
Descendants(S, n) ==
    IF n = 0 THEN S
    ELSE Descendants(S \cup UNION {Children(x) : x \in S}, n - 1)

\* the tokens a cascade from p passes on to: p's children, and the children of
\* every such token that is cancelled
RECURSIVE Cascaded(_, _, _)
Cascaded(p, S, n) ==
    IF n = 0 THEN S
    ELSE Cascaded(p, S \cup UNION {Children(x) : x \in {y \in S : cancelled[y]}}, n - 1)

\* C7 as claimed: once p.mark_cancelled() has returned True, all tokens chained
\* below p are cancelled
C7_AllDescendantsCancelled ==
    \A th \in Threads, p \in Tokens :
        (Done(th, "mark_cancelled", p) /\ stack[th][1].rv = "True") =>
            \A d \in Descendants(Children(p), NTokens) : cancelled[d]

\* C7 amended: once p.mark_cancelled() has returned True, every token chained
\* below p through cancelled tokens is cancelled unless it was completed first
C7_CascadeReachesUncompleted ==
    \A th \in Threads, p \in Tokens :
        (Done(th, "mark_cancelled", p) /\ stack[th][1].rv = "True") =>
            \A d \in Cascaded(p, Children(p), NTokens) : cancelled[d] \/ completed[d]

\* a cascade over two levels: p -> c -> g, all three cancelled by p.mark_cancelled()
C7_Witness ==
    \E th \in Threads, p, c, g \in Tokens :
        /\ Done(th, "mark_cancelled", p) /\ stack[th][1].rv = "True"
        /\ stack[th][1].pre = "fresh"
        /\ Cardinality({p, c, g}) = 3
        /\ c \in Children(p) /\ g \in Children(c)
        /\ cancelled[c] /\ cancelled[g]

\* p.chain(c) by th has returned, and p was already cancelled when it was called
LateChained(th, p, c) ==
    Done(th, "chain", p) /\ stack[th][1].arg = c /\ stack[th][1].pre = "cancelled"

\* the chain list of a cancelled token never grows
FrozenOnceCancelled ==
    [][\A p \in Tokens : cancelled[p] => chained'[p] = chained[p]]_vars

\* C8 as claimed: c is cancelled when the late p.chain(c) returns, and c was not
\* appended to p's list
C8_LateChainCancels ==
    /\ [](\A th \in Threads, p, c \in Tokens : LateChained(th, p, c) => cancelled[c])
    /\ FrozenOnceCancelled

\* C8 amended: when the late p.chain(c) returns c is cancelled, unless c was
\* completed before, and then it stays completed; c was not appended to p's list
C8_LateChainCancelsUncompleted ==
    /\ [](\A th \in Threads, p, c \in Tokens :
            LateChained(th, p, c) => cancelled[c] \/ completed[c])
    /\ FrozenOnceCancelled

\* a fresh token was chained to a cancelled one and came back cancelled
C8_Witness ==
    \E th \in Threads, p, c \in Tokens :
        LateChained(th, p, c) /\ p # c /\ cancelled[c] /\ chained[p] = <<>>

\* C9: when p.chain(c) and a successful p.mark_cancelled() have both returned, in
\* whatever order they ran, c is cancelled unless it is completed
C9_NoLostCancellation ==
    \A a, b \in Threads, p, c \in Tokens :
        ( /\ Done(a, "chain", p) /\ stack[a][1].arg = c
          /\ Done(b, "mark_cancelled", p) /\ stack[b][1].rv = "True"
          /\ ~completed[c] ) => cancelled[c]

\* both calls were invoked while p was fresh, so they raced for p's lock
C9_Witness ==
    \E a, b \in Threads, p, c \in Tokens :
        /\ a # b /\ p # c
        /\ Done(a, "chain", p) /\ stack[a][1].arg = c /\ stack[a][1].pre = "fresh"
        /\ Done(b, "mark_cancelled", p) /\ stack[b][1].rv = "True"
        /\ stack[b][1].pre = "fresh"
        /\ cancelled[c]

\* C10: cancel() invokes the callback exactly when its mark_cancelled() returned
\* True, returning the callback's result; nothing else invokes a callback; a
\* cancel() on a completed token changes no token state and returns a falsy value
C10_CancelInvokesIffMarked ==
    /\ [][\A th \in Threads :
            Steps(th, "cancel", "test") =>
                IF Top(th).rv = "True"
                THEN /\ cancelFnCalls' =
                            [cancelFnCalls EXCEPT ![Top(th).tok] = @ + 1]
                     /\ Returns(th, "cancelFn()")
                ELSE /\ UNCHANGED cancelFnCalls
                     /\ Returns(th, "None")]_vars
    /\ [][cancelFnCalls' # cancelFnCalls =>
            \E th \in Threads : Steps(th, "cancel", "test")]_vars
    /\ [][\A th \in Threads :
            ( /\ stack[th] # <<>>
              /\ stack[th][1].op = "cancel"
              /\ stack[th][1].pre = "completed"
              /\ stack'[th] # stack[th] ) =>
                UNCHANGED <<cancelled, completed, chained, cancelFnCalls>>]_vars
    /\ [](\A th \in Threads, t \in Tokens :
            (Done(th, "cancel", t) /\ stack[th][1].pre = "completed") =>
                Falsy(stack[th][1].rv))

\* a cancel() on a completed token has returned, and another cancel() has invoked
\* its callback
C10_Witness ==
    \E th \in Threads, t, u \in Tokens :
        /\ Done(th, "cancel", t) /\ stack[th][1].pre = "completed"
        /\ stack[th][1].rv = "None"
        /\ cancelFnCalls[t] = 0
        /\ cancelFnCalls[u] = 1

\* the `with` statement of the bounded scope is over and a token was yielded
ScopeExited ==
    /\ stack[Body] # <<>>
    /\ stack[Body][1].op = "scope"
    /\ stack[Body][1].pc \in {"exited", "dead"}
    /\ scope.kind \in {"async", "alarm", "watcher", "windows"}

\* C2: once a bounded scope has exited, whatever the entry point, the platform
\* and the thread, its token is in exactly one of the states cancelled, completed
C2_ExitedTerminal == ScopeExited => (cancelled[Ctx] # completed[Ctx])

\* C11: a callback is invoked only by a cancel() called on its own token, never by
\* the cascade of a parent's mark_cancelled() or cancel()
C11_CascadeInvokesNoCallback ==
    [][\A t \in Tokens :
          cancelFnCalls'[t] # cancelFnCalls[t] =>
              \E th \in Threads :
                  /\ Steps(th, "cancel", "test")
                  /\ Top(th).tok = t
                  /\ Top(th).rv = "True"
                  /\ cancelFnCalls'[t] = cancelFnCalls[t] + 1]_vars

\* p.cancel() has cancelled its child c by the cascade and invoked only p's callback
C11_Witness ==
    \E th \in Threads, p, c \in Tokens :
        /\ p # c
        /\ Done(th, "cancel", p) /\ stack[th][1].rv = "cancelFn()"
        /\ stack[th][1].pre = "fresh"
        /\ c \in Children(p) /\ cancelled[c]
        /\ cancelFnCalls[p] = 1 /\ cancelFnCalls[c] = 0

\* C12: a thread about to invoke the callback in cancel() holds no token's lock
C12_NoLockAcrossCallback ==
    \A th \in Threads :
        (At(th, "cancel", "test") /\ CancelInvokes(Top(th).rv)) =>
            \A t \in Tokens : lock[t] # th

\* cancel() is about to invoke the callback after a cascade that ran under the lock
C12_Witness ==
    \E th \in Threads, c \in Tokens :
        /\ At(th, "cancel", "test") /\ Top(th).rv = "True"
        /\ c \in Children(Top(th).tok) /\ c # Top(th).tok /\ cancelled[c]

\* th is inside the cascade of p.mark_cancelled()
Cascading(th, p) ==
    \E i \in 1..Len(stack[th]) :
        /\ stack[th][i].op = "mark_cancelled"
        /\ stack[th][i].tok = p
        /\ stack[th][i].pc = "loop"

\* the children of p the cascade run by th has not called yet
Unreached(th, p) ==
    LET i == CHOOSE j \in 1..Len(stack[th]) :
                 /\ stack[th][j].op = "mark_cancelled"
                 /\ stack[th][j].tok = p
                 /\ stack[th][j].pc = "loop"
    IN  {CascadeList(p)[k] : k \in stack[th][i].idx..Len(CascadeList(p))}

\* C13 as claimed: while p's cancellation propagates, neither p nor a child the
\* cascade has not reached yet becomes completed
C13_NoneCompletedWhilePropagating ==
    [][\A th \in Threads, p \in Tokens :
          Cascading(th, p) =>
              /\ ~completed'[p]
              /\ \A c \in Unreached(th, p) : ~completed[c] => ~completed'[c]]_vars

\* C13 amended: while p's cancellation propagates p stays cancelled and never
\* completed, and no cancelled child becomes completed; a child the cascade has
\* not reached yet can still be completed, and then it is never cancelled
C13_ParentNotOverwritten ==
    [][\A th \in Threads, p \in Tokens :
          Cascading(th, p) =>
              /\ cancelled'[p] /\ ~completed'[p]
              /\ \A c \in Children(p) :
                    /\ cancelled[c] => ~completed'[c]
                    /\ completed[c] => completed'[c] /\ ~cancelled'[c]]_vars

\* the cascade of p is under way and a child it has not reached yet has been
\* completed by another thread
C13_Witness ==
    \E th, b \in Threads, p, c \in Tokens :
        /\ th # b /\ p # c
        /\ Cascading(th, p)
        /\ c \in Unreached(th, p)
        /\ Done(b, "mark_completed", c) /\ stack[b][1].rv = "True"
        /\ completed[c]

\* C14: the enforcer thread of the watcher injects its fault into the supervised
\* thread only when its own mark_cancelled() has cancelled the token; when the
\* scope has exited with the token completed it injects nothing
C14_StandDown ==
    [][(Steps(Watcher, "enforcer", "send") /\ proc'.asyncExc = "TimeoutError") =>
          Top(Watcher).rv = "True"]_vars

\* C15: when nobody cancels by hand, a scope that returns normally has a token
\* that is not cancelled, and no fault reaches the thread after the scope exited
C15_FaultRaisedInScope ==
    ncalls = 0 =>
        /\ (ScopeExited /\ obs.outcome = "returned") => ~cancelled[Ctx]
        /\ obs.lateFault = "none"

\* C18: the alarm enforcer called outside the main thread raises ValueError at
\* once: no handler installed, no timer armed, no thread started, no token built
C18_AlarmNeedsMainThread ==
    (cfg.entry = "_alarm_based_timeout" /\ ~cfg.main /\ ~ScopeAt("start")) =>
        /\ obs.outcome = "ValueError"
        /\ proc = NoProc
        /\ scope.kind = "none"
        /\ stack[Watcher] = <<>> /\ stack[User] = <<>>
        /\ ~cancelled[Ctx] /\ ~completed[Ctx] /\ cancelFnCalls[Ctx] = 0

\* the direct call from another thread has failed
C18_Witness ==
    /\ cfg.entry = "_alarm_based_timeout" /\ ~cfg.main /\ cfg.arg # None
    /\ ScopeAt("exited")
    /\ obs.outcome = "ValueError"

\* C16: off Windows, cancel_sync_at and cancel_sync_after run the alarm enforcer
\* when called in the main thread and the watcher enforcer in any other thread,
\* whatever the timeout
C16_DispatchByThread ==
    (IsSync /\ ~cfg.win /\ ~ScopeAt("start")) =>
        scope.kind = (IF cfg.main THEN "alarm" ELSE "watcher")

\* the main thread got the alarm enforcer although it asked for no timeout
C16_Witness ==
    /\ IsSync /\ ~cfg.win /\ cfg.main /\ cfg.arg = None
    /\ scope.kind = "alarm"
    /\ ScopeAt("body")

\* C17: on Windows the synchronous entry points install no handler, arm no timer
\* and start no thread; nothing but a manual call cancels the token, nothing
\* interrupts the body, and the warning is logged when a timeout was asked for
C17_WindowsUnenforced ==
    (IsSync /\ cfg.win /\ ~ScopeAt("start")) =>
        /\ scope.kind = "windows"
        /\ proc = NoProc
        /\ stack[Watcher] = <<>>
        /\ ncalls = 0 => ~cancelled[Ctx]
        /\ scope.exc \in {"none", "BodyError"}
        /\ obs.outcome \in {"running", "returned", "BodyError"}
        /\ obs.lateFault = "none"
        /\ obs.warned = (cfg.arg # None)

\* a body on Windows ran past its timeout and returned, warned and not cancelled
C17_Witness ==
    /\ cfg.entry = "cancel_sync_after" /\ cfg.win /\ cfg.arg = 1
    /\ scope.kind = "windows"
    /\ ScopeAt("exited")
    /\ now = MaxTime
    /\ obs.outcome = "returned" /\ obs.warned
    /\ ~cancelled[Ctx]

\* a scope was entered with None as its timeout or deadline
NullTimeout == cfg.arg = None /\ ~ScopeAt("start")

\* C19 as claimed: with a null timeout no timer, no handler and no thread exists,
\* and only a manual call cancels the token
C19_NullCreatesNothing ==
    NullTimeout =>
        /\ proc.timerAt = None
        /\ proc.handler = "default"
        /\ stack[Watcher] = <<>> /\ proc.wakeAt = None
        /\ ncalls = 0 => ~cancelled[Ctx]

\* C19 amended: with a null timeout no timer is armed and no thread is started,
\* and only a manual call cancels the token; the alarm enforcer, and only it,
\* still installs its SIGALRM handler
C19_NullArmsNothing ==
    NullTimeout =>
        /\ proc.timerAt = None
        /\ proc.handler = (IF scope.kind = "alarm" THEN "scope" ELSE "default")
        /\ stack[Watcher] = <<>> /\ proc.wakeAt = None
        /\ ncalls = 0 => ~cancelled[Ctx]

\* an alarm scope without timeout has run to the end of time and completed, its
\* handler installed
C19_Witness ==
    /\ cfg.arg = None
    /\ scope.kind = "alarm" /\ proc.handler = "scope"
    /\ ScopeExited /\ now = MaxTime
    /\ completed[Ctx]

\* C20: when an alarm scope with a timeout has exited, ITIMER_REAL is as it was
\* before the scope: disarmed if it was disarmed, armed if it was armed
C20_TimerRestored ==
    (scope.kind = "alarm" /\ scope.timeout # None /\ ScopeExited) =>
        IF Max0(scope.previous) = 0
        THEN proc.timerAt = None
        ELSE proc.timerAt # None

\* th takes a step inside a top-level call of op made when its token was in state st
RepeatStep(th, op, st) ==
    /\ Running(th)
    /\ stack[th][1].op = op
    /\ stack[th][1].pre = st
    /\ stack'[th] # stack[th]

\* C30: mark_completed() on a completed token and mark_cancelled() on a cancelled
\* token return True again and change no flag and no chain list of any token
C30_Idempotent ==
    [][\A th \in Threads :
          (\/ RepeatStep(th, "mark_completed", "completed")
           \/ RepeatStep(th, "mark_cancelled", "cancelled")) =>
              /\ UNCHANGED <<cancelled, completed, chained, cancelFnCalls>>
              /\ Returned(th)' => stack'[th][1].rv = "True"]_vars

\* mark_cancelled() was repeated on a cancelled token that has a child
C30_Witness ==
    \E th \in Threads, p, c \in Tokens :
        /\ p # c
        /\ Done(th, "mark_cancelled", p)
        /\ stack[th][1].pre = "cancelled" /\ stack[th][1].rv = "True"
        /\ chained[p] = <<c>>
        /\ cancelled[c]

\* C21: once an alarm scope has exited, the SIGALRM handler of the process is the
\* one that was installed before the scope, not the scope's own
C21_HandlerRestored ==
    (scope.kind = "alarm" /\ ScopeExited) => proc.handler = "default"

\* the enforcer thread was never started, or timeout_enforcer has returned
EnforcerOver == stack[Watcher] = <<>> \/ Returned(Watcher)

\* C22: once a watcher scope has exited, its enforcer thread is over
C22_EnforcerTornDown ==
    (scope.kind = "watcher" /\ ScopeExited) => EnforcerOver

\* C26: an exception of the body's own leaves the scope unchanged, whatever the
\* token and the enforcer did
C26_BodyErrorPropagates ==
    (ScopeExited /\ scope.exc = "BodyError") => obs.outcome = "BodyError"

\* C29: an alarm scope with a timeout, 0 included, has its timer armed while the
\* body runs and nothing has fired yet
C29_TimerArmed ==
    (scope.kind = "alarm" /\ scope.timeout # None /\ ScopeAt("body")
        /\ ~cancelled[Ctx] /\ ncalls = 0) =>
            proc.timerAt # None \/ proc.sigPending

\* the scope's own deadline has not passed
OwnDeadlineAhead == scope.deadline = None \/ now < scope.deadline

\* C28: a cooperative scope whose body was interrupted by an enclosing scope's
\* cancellation, its own deadline not passed and its own cancellation not
\* triggered, exits with its token cancelled and raises CancelledError
C28_OuterCancelMarksInner ==
    (scope.kind = "async" /\ ScopeExited /\ scope.exc = "asyncio.CancelledError"
        /\ ~scope.cancel_called /\ OwnDeadlineAhead /\ ncalls = 0) =>
            cancelled[Ctx] /\ obs.outcome = "CancelledError"

\* the faults an enforcer raises
EnforcerFaults == {"TimeoutError", "CancelledError"}

\* the finally block of cancel_async_at raises its fault in this step
AsyncRaiseStep == ScopeAt("raise") /\ stack'[Body] # stack[Body]

\* raise_alarm_as_timeout raises its fault in this step
HandlerRaiseStep == At(Body, "handler", "raise") /\ stack'[Body] # stack[Body]

\* the fault the handler raises in this step, where the step leaves it
HandlerRaised ==
    LET pc == stack[Body][1].pc IN
    CASE pc = "body" -> scope'.exc
      [] pc = "exited" -> obs'.lateFault
      [] OTHER -> obs'.outcome

\* TimeoutError when the clock has reached or passed the deadline
FaultIfReached ==
    IF scope.deadline # None /\ now >= scope.deadline
    THEN "TimeoutError" ELSE "CancelledError"

\* C25 as claimed: the cooperative and alarm enforcers raise TimeoutError exactly
\* when the clock is strictly past the scope's deadline, CancelledError otherwise
C25_StrictlyPassed ==
    [][LET fault == IF scope.deadline # None /\ now > scope.deadline
                    THEN "TimeoutError" ELSE "CancelledError"
       IN  /\ AsyncRaiseStep => obs'.outcome = fault
           /\ HandlerRaiseStep => HandlerRaised = fault]_vars

\* C25 amended: they raise TimeoutError exactly when there is a deadline and the
\* clock has reached or passed it, CancelledError otherwise
C25_ReachedOrPassed ==
    [][/\ AsyncRaiseStep => obs'.outcome = FaultIfReached
       /\ HandlerRaiseStep => HandlerRaised = FaultIfReached]_vars

\* a cooperative scope raised TimeoutError with the clock equal to its deadline
C25_Witness ==
    /\ scope.kind = "async"
    /\ ScopeAt("exited")
    /\ scope.deadline = now
    /\ obs.outcome = "TimeoutError"

\* C27 as claimed: a cooperative scope exits either with its token cancelled and
\* an enforcer fault raised, or with its token completed and no enforcer fault
C27_ExitByCancelCalled ==
    (scope.kind = "async" /\ ScopeExited) =>
        \/ obs.outcome \in EnforcerFaults /\ cancelled[Ctx] /\ ~completed[Ctx]
        \/ obs.outcome \notin EnforcerFaults /\ completed[Ctx] /\ ~cancelled[Ctx]

\* C27 amended: it exits with an enforcer fault, cancellation triggered and the
\* token cancelled, or with no enforcer fault (what the body did is what the
\* caller sees) and the token completed unless it was marked cancelled by hand
C27_ExitByCancelCalledOrMarked ==
    (scope.kind = "async" /\ ScopeExited) =>
        /\ obs.outcome \in EnforcerFaults =>
              scope.cancel_called /\ cancelled[Ctx] /\ ~completed[Ctx]
        /\ obs.outcome \notin EnforcerFaults =>
              /\ obs.outcome = (IF scope.exc = "none" THEN "returned" ELSE scope.exc)
              /\ completed[Ctx] # cancelled[Ctx]
              /\ ncalls = 0 => completed[Ctx]
        /\ (scope.cancel_called /\ ncalls = 0) => obs.outcome \in EnforcerFaults

\* a cooperative scope returned normally with a token that was marked cancelled
C27_Witness ==
    /\ scope.kind = "async" /\ ScopeExited
    /\ obs.outcome = "returned"
    /\ ~scope.cancel_called
    /\ cancelled[Ctx]

\* the deadline of the scope's token: the one given, or the one computed from the
\* timeout
OwnDeadline == IF scope.kind = "watcher" THEN scope.ctxDeadline ELSE scope.deadline

\* another thread called cancel() on the fresh token of the scope, and the
\* callback was invoked
ManualCancel ==
    /\ Done(User, "cancel", Ctx)
    /\ stack[User][1].pre = "fresh"
    /\ stack[User][1].at # None

\* a TimeoutError was raised in, or is on its way to, the scope's thread
TimeoutSeen ==
    "TimeoutError" \in {scope.exc, obs.outcome, obs.lateFault, proc.asyncExc}

\* C24 as claimed: after a cancel() whose callback ran before the deadline, the
\* scope never sees a TimeoutError
C24_ManualCancelNeverTimeout ==
    (ManualCancel /\ scope.kind \in {"async", "alarm", "watcher"}
        /\ (OwnDeadline = None \/ stack[User][1].at < OwnDeadline)) =>
            ~TimeoutSeen

\* C24 amended: after such a cancel(), for as long as the clock has not reached
\* the deadline, the scope sees no TimeoutError, and the enforcer fault it exits
\* with is CancelledError
C24_CancelledErrorBeforeDeadline ==
    (ManualCancel /\ scope.kind \in {"async", "alarm", "watcher"}
        /\ (OwnDeadline = None \/ now < OwnDeadline)) =>
            /\ ~TimeoutSeen
            /\ (ScopeExited /\ obs.outcome # "CancelledError") =>
                    obs.outcome = (IF scope.exc = "none" THEN "returned" ELSE scope.exc)

\* an alarm scope was cancelled by hand and exited with CancelledError before its
\* deadline
C24_Witness ==
    /\ ManualCancel
    /\ scope.kind = "alarm" /\ scope.deadline # None /\ now < scope.deadline
    /\ ScopeExited
    /\ obs.outcome = "CancelledError"

\* a watcher scope with a timeout that expires within the clock's range
Watched == scope.kind = "watcher" /\ scope.timeout # None /\ proc.wakeAt <= MaxTime

\* the body is not running any more: it exited on its own or was interrupted
BodyLeft == stack[Body][1].pc \notin {"try", "body"}

\* the token is cancelled and the TimeoutError is set in the supervised thread
TimeoutInjected == cancelled[Ctx] /\ proc.asyncExc = "TimeoutError"

\* C23: in a watcher scope with a timeout, unless the body leaves before any
\* TimeoutError, the token is eventually cancelled with a TimeoutError injected
\* into the supervised thread
C23_WatcherFires ==
    (Watched /\ ~BodyLeft) ~>
        ((cancelled[Ctx] /\ TimeoutSeen) \/ (BodyLeft /\ ~TimeoutSeen))

\* the enforcer has fired on a body that was still running, nobody else involved
C23_Witness ==
    /\ Watched
    /\ ScopeAt("body")
    /\ TimeoutInjected
    /\ ncalls = 0

\* C38: whatever cancel() calls are made on a token, its callback is invoked at
\* most once
C38_CancelFnAtMostOnce == \A t \in Tokens : cancelFnCalls[t] <= 1

\* C40: a cascade that reaches a completed child changes no flag of it and enters
\* none of its descendants (the nested call returns False at once); the cascade
\* goes on with the next child after a refusal, and returns True at the end
C40_CompletedChildRespected ==
    [][\A th \in Threads :
        LET n == Len(stack[th]) IN
        /\ (n >= 2 /\ Steps(th, "mark_cancelled", "enter") /\ completed[Top(th).tok]) =>
              /\ cancelled' = cancelled
              /\ completed' = completed
              /\ Len(stack'[th]) = n - 1
              /\ stack'[th][n - 1].rv = "False"
        /\ (Steps(th, "mark_cancelled", "loop") /\ Top(th).rv = "False") =>
              IF Top(th).idx <= Len(chained[Top(th).tok])
              THEN /\ Len(stack'[th]) = n + 1
                   /\ stack'[th][n + 1].op = "mark_cancelled"
                   /\ stack'[th][n + 1].tok = chained[Top(th).tok][Top(th).idx]
              ELSE Returns(th, "True")]_vars

\* p.mark_cancelled() has returned True over a completed first child and a second
\* child that it cancelled
C40_Witness ==
    \E th \in Threads, p, c, d \in Tokens :
        /\ Done(th, "mark_cancelled", p) /\ stack[th][1].rv = "True"
        /\ stack[th][1].pre = "fresh"
        /\ Cardinality({p, c, d}) = 3
        /\ chained[p] = <<c, d>>
        /\ completed[c] /\ ~cancelled[c]
        /\ cancelled[d] /\ ~completed[d]

\* th is at `with self._lock:` of a method and the lock is held
Waiting(th) ==
    /\ Running(th)
    /\ Top(th).op \in {"mark_cancelled", "mark_completed", "chain"}
    /\ Top(th).pc = "enter"
    /\ lock[Top(th).tok] # Free

\* th waits for a lock whose owner waits for a lock, n times over
RECURSIVE WaitChain(_, _)
WaitChain(th, n) ==
    IF n = 0 THEN TRUE
    ELSE Waiting(th) /\ WaitChain(lock[Top(th).tok], n - 1)

\* a chain of waits longer than the number of threads closes on itself: none of
\* its locks is ever released
BlockedForever(th) == WaitChain(th, NThreads + 1)

\* C37 as claimed: no thread ever blocks forever on a token lock, self-chains and
\* cycles included
C37_NeverBlockedForever == \A th \in Threads : ~BlockedForever(th)

\* the chain() calls in progress on t: their arguments
Chaining(t) ==
    UNION {{stack[th][i].arg : i \in {k \in 1..Len(stack[th]) :
                                        /\ stack[th][k].op = "chain"
                                        /\ stack[th][k].tok = t
                                        /\ stack[th][k].pc # "done"}} :
           th \in Threads}

\* the tokens t.chain() has been called with: those on t's list and those of the
\* chain() calls in progress
Requested(t) == Children(t) \cup Chaining(t)

RECURSIVE ReachRequested(_, _)
ReachRequested(S, n) ==
    IF n = 0 THEN S
    ELSE ReachRequested(S \cup UNION {Requested(x) : x \in S}, n - 1)

\* some token is chained below itself
CyclicChained == \E t \in Tokens : t \in Descendants(Children(t), NTokens)

\* some token is chained below itself, the chain() calls in progress included
CyclicRequested == \E t \in Tokens : t \in ReachRequested(Requested(t), NTokens)

TokenBuilt == scope.kind \in {"async", "alarm", "watcher", "windows"}

\* C31: get_deadline gives None for None and the clock plus the timeout for every
\* other timeout, 0 included; the deadline of a scope's token is None exactly
\* when its timeout is, and otherwise the timeout past the clock of its creation
C31_DeadlineArithmetic ==
    /\ GetDeadline(None) = None
    /\ \A t \in 0..MaxArg : GetDeadline(t) # None /\ GetDeadline(t) - now = t
    /\ TokenBuilt =>
          /\ (scope.ctxDeadline = None) <=> (scope.ctxTimeout = None)
          /\ scope.ctxTimeout # None =>
                scope.ctxDeadline - scope.ctxTimeout \in 0..now

\* a token built with the timeout 0 has the clock of its creation as deadline
C31_Witness ==
    /\ TokenBuilt
    /\ scope.ctxTimeout = 0
    /\ scope.ctxDeadline # None /\ scope.ctxDeadline < now

\* C32: cancel_async_at and cancel_sync_at give the token the timeout
\* max(0, deadline - now) for every deadline but None, 0 and past deadlines
\* included, and None only for the deadline None; in cancel_async_at the token's
\* timeout is None exactly when the scheduler's scope is unbounded
C32_RemainingTime ==
    /\ \A d \in 0..MaxArg :
          /\ RemainingAsync(d) = Max0(d - now)
          /\ RemainingSync(d) = Max0(d - now)
    /\ RemainingAsync(None) = None /\ RemainingSync(None) = None
    /\ (cfg.entry = "cancel_async_at" /\ scope.kind = "async") =>
          ((scope.ctxTimeout = None) <=> (scope.scopeDeadline = Inf))

\* C34: whenever raise_alarm_as_timeout is about to raise, the token of its scope
\* is cancelled and not completed
C34_HandlerRaisesForCancelled ==
    At(Body, "handler", "raise") => (cancelled[Ctx] /\ ~completed[Ctx])

\* the thread the watcher scope ran in has ended
BodyGone == scope.kind = "watcher" /\ stack[Body][1].pc = "dead"

\* C35: once the supervised thread has ended, an injection by the enforcer or by
\* the callback of cancel() raises ValueError to the thread that attempted it and
\* sets no exception anywhere
C35_DeadThreadFailsLoudly ==
    [][BodyGone =>
        /\ Steps(Watcher, "enforcer", "send") =>
              /\ Returns(Watcher, "ValueError")
              /\ proc' = proc /\ obs' = obs
        /\ \A th \in ScopeThreads :
              (Steps(th, "cancel", "test") /\ CancelInvokes(Top(th).rv)) =>
                  /\ Returns(th, "ValueError")
                  /\ proc' = proc /\ obs' = obs]_vars

\* the enforcer and a later cancel() have both failed on the ended thread
C35_Witness ==
    /\ BodyGone
    /\ Returned(Watcher) /\ stack[Watcher][1].rv = "ValueError"
    /\ Returned(User) /\ stack[User][1].op = "cancel"
    /\ stack[User][1].rv = "ValueError"
    /\ proc.asyncExc = "none"

Faults == {"TimeoutError", "CancelledError"}

\* a fault set by _send_exception_to_thread has been raised in the supervised thread
FaultRaised ==
    \/ scope.exc \in Faults
    \/ obs.outcome \in Faults
    \/ obs.lateFault \in Faults

\* C39: in a watcher scope the supervised thread never gets a second fault: none
\* is pending once one has been raised, and none is raised after the scope
\* has ended with one
C39_AtMostOneFault ==
    scope.kind = "watcher" =>
        /\ ~(FaultRaised /\ proc.asyncExc # "none")
        /\ ~(obs.lateFault \in Faults /\ obs.outcome \in Faults)

\* the handler has interrupted the body of the outer scope after the inner scope
\* was entered and exited normally
InnerExitedNormally ==
    /\ Len(stack[Body]) = 2
    /\ stack[Body][1].op = "scope" /\ stack[Body][1].tok = Outer
    /\ stack[Body][1].pc = "body"
    /\ completed[Inner]
    /\ scope[Inner].exc = "none"

\* C33: when the handler is about to raise in the body of an outer scope with a
\* timeout, after an inner scope has exited normally, the outer scope's token is
\* cancelled and the fault is the one the outer scope's deadline gives
C33_OuterTimerCancelsOuter ==
    (/\ At(Body, "handler", "raise")
     /\ InnerExitedNormally
     /\ scope[Outer].timeout # None) =>
        /\ cancelled[Outer]
        /\ NestedFault = AlarmFaultOf(scope[Outer].timeout, scope[Outer].deadline)

====
